---------------------------- MODULE Spec2Model ----------------------------
(***************************************************************************)
(* A model of cjs2esm: the shebang shield, the transformation pipeline     *)
(* (transformOutput), the specifier rewriting transform (transformer.js),  *)
(* the tree copier (copyFiles) and the manifest patcher                    *)
(* (updatePackageJSON).                                                    *)
(*                                                                         *)
(* Strings are sequences of tokens.  A token stands for one character      *)
(* ("#", "!", ".", "/", "\n", " ") or for an indivisible run of word       *)
(* characters ("b", "mjs", "index", ...), so that prefix tests, splits on  *)
(* "/" and extension handling work on them as on JavaScript strings.       *)
(***************************************************************************)
EXTENDS Naturals, Integers, Sequences, FiniteSets, TLC

VARIABLES
    \* ---- shebang shield (removeShebangs / restoreShebangs) on one file
    contents,    \* the content of the copied file on disk
    original,    \* the content the file had when it was copied
    shebangs,    \* the dictionary removeShebangs returned: <<>> or <<shebang>>
    shPhase,     \* "copied", "shielded", "unshielded"
    modified,    \* a transformation pass rewrote the file in between
    \* ---- transformOutput
    pc,          \* position inside transformOutput
    fileShebang, \* per copied file: its `from` matches options.filesWithShebang
    removed,     \* files removeShebangs has finished with
    running,     \* the index of the pass Runner.run is executing, 0 when none
    processed,   \* files the running pass has processed
    okCount,     \* stats.ok + stats.nochange of the running pass
    results,     \* the stats of the passes that finished, in order
    restored,    \* files restoreShebangs has finished with
    thrown,      \* the pass named by the thrown Error, "" when none
    \* ---- transformer.js, on one statement of one file of the output tree
    fsFiles,     \* the files on disk (absolute paths); their ancestors are the directories
    filePath,    \* file.path: the file being transformed
    ignoreList,  \* cjs2esm.extension.ignore
    modules,     \* cjs2esm.modules: the alias rule table
    stmtKind,    \* the kind of the statement's node, "" before the transform ran
    importPath,  \* the statement's specifier as written
    extSource,   \* the specifier after the extension sub-pass
    outSource,   \* the specifier in root.toSource()
    \* ---- copyFiles
    srcFiles,    \* the files below the working directory (absolute paths)
    input,       \* options.input: the input roots (absolute paths)
    useExtension,    \* options.extension.use
    forceDirectory,  \* options.forceDirectory: "null", "true" or "false"
    outFiles,    \* the files fs.copyFile wrote
    pending,     \* the indices of the roots whose copyDirectory has not resolved
    copied,      \* the CopiedFile records of the copyDirectory calls that resolved
    cpPc,        \* "copying", then "copied" once copyFiles returned
    \* ---- updatePackageJSON (the disk is fsFiles)
    pkgMain,     \* pkgJson.main, <<>> when the manifest has none
    files,       \* the CopiedFile list the function is given
    pkgModule,   \* pkgJson.module as written to package.json, <<>> when unwritten
    pkResult,    \* "", then "written", "skipped" (null returned) or "threw"
    pkLog        \* the colour of the message logged

shVars == <<contents, original, shebangs, shPhase, modified>>
tpVars == <<pc, fileShebang, removed, running, processed, okCount, results,
            restored, thrown>>
rwVars == <<fsFiles, filePath, ignoreList, modules, stmtKind, importPath,
            extSource, outSource>>
cpVars == <<srcFiles, input, useExtension, forceDirectory, outFiles, pending,
            copied, cpPc>>
pkVars == <<pkgMain, files, pkgModule, pkResult, pkLog>>
vars == <<shVars, tpVars, rwVars, cpVars, pkVars>>

(***************************************************************************)
(* Bounds of the model.                                                    *)
(***************************************************************************)
MaxContentLen == 5
NFiles == 2

(***************************************************************************)
(* JavaScript string primitives on token sequences.                        *)
(***************************************************************************)
NL == "\n"
SP == " "

\* s.startsWith(p)
StartsWith(s, p) ==
    /\ Len(p) <= Len(s)
    /\ SubSeq(s, 1, Len(p)) = p

\* s.endsWith(p)
EndsWith(s, p) ==
    /\ Len(p) <= Len(s)
    /\ SubSeq(s, Len(s) - Len(p) + 1, Len(s)) = p

\* the 1-based positions at which p occurs in s
Occurrences(s, p) ==
    {i \in 1..(Len(s) - Len(p) + 1) : SubSeq(s, i, i + Len(p) - 1) = p}

\* the smallest element of a non-empty set of naturals
Min(S) == CHOOSE x \in S : \A y \in S : x <= y

\* s.replace(p, r) with a string pattern: the first occurrence only
ReplaceFirst(s, p, r) ==
    IF Occurrences(s, p) = {} THEN s
    ELSE LET i == Min(Occurrences(s, p))
         IN  SubSeq(s, 1, i - 1) \o r \o SubSeq(s, i + Len(p), Len(s))

IsWhitespace(c) == c \in {NL, SP}

\* s.trimLeft()
RECURSIVE TrimLeft(_)
TrimLeft(s) ==
    IF s # <<>> /\ IsWhitespace(Head(s)) THEN TrimLeft(Tail(s)) ELSE s

\* all strings over alphabet A of length at most n
StringsUpTo(A, n) == UNION {[1..k -> A] : k \in 0..n}

(***************************************************************************)
(* Node's path module (POSIX) on token sequences.                          *)
(***************************************************************************)
\* s.split(sep)
RECURSIVE SplitOn(_, _)
SplitOn(s, sep) ==
    IF \A i \in 1..Len(s) : s[i] # sep THEN <<s>>
    ELSE LET i == Min({j \in 1..Len(s) : s[j] = sep})
         IN  <<SubSeq(s, 1, i - 1)>> \o SplitOn(SubSeq(s, i + 1, Len(s)), sep)

\* segs.join(sep)
RECURSIVE JoinWith(_, _)
JoinWith(segs, sep) ==
    IF segs = <<>> THEN <<>>
    ELSE IF Len(segs) = 1 THEN segs[1]
    ELSE segs[1] \o <<sep>> \o JoinWith(Tail(segs), sep)

DotDot == <<".", ".">>

\* normalizeString: "." and empty segments go, ".." takes the segment before it
RECURSIVE NormalizeSegments(_, _, _)
NormalizeSegments(segs, acc, allowAboveRoot) ==
    IF segs = <<>> THEN acc
    ELSE LET seg == Head(segs)
             rest == Tail(segs)
         IN  IF seg = <<>> \/ seg = <<".">>
             THEN NormalizeSegments(rest, acc, allowAboveRoot)
             ELSE IF seg = DotDot
             THEN IF acc # <<>> /\ acc[Len(acc)] # DotDot
                  THEN NormalizeSegments(rest, SubSeq(acc, 1, Len(acc) - 1),
                                         allowAboveRoot)
                  ELSE IF allowAboveRoot
                  THEN NormalizeSegments(rest, Append(acc, DotDot), allowAboveRoot)
                  ELSE NormalizeSegments(rest, acc, allowAboveRoot)
             ELSE NormalizeSegments(rest, Append(acc, seg), allowAboveRoot)

\* path.normalize(p)
PathNormalize(p) ==
    IF p = <<>> THEN <<".">>
    ELSE LET isAbsolute == p[1] = "/"
             trailing == p[Len(p)] = "/"
             body == JoinWith(NormalizeSegments(SplitOn(p, "/"), <<>>, ~isAbsolute),
                              "/")
         IN  IF body = <<>>
             THEN IF isAbsolute THEN <<"/">>
                  ELSE IF trailing THEN <<".", "/">> ELSE <<".">>
             ELSE (IF isAbsolute THEN <<"/">> ELSE <<>>) \o body
                     \o (IF trailing THEN <<"/">> ELSE <<>>)

\* path.join(a, b): the replacement loses a leading "./" here
PathJoin(a, b) ==
    IF a = <<>> /\ b = <<>> THEN <<".">>
    ELSE IF a = <<>> THEN PathNormalize(b)
    ELSE IF b = <<>> THEN PathNormalize(a)
    ELSE PathNormalize(a \o <<"/">> \o b)

\* p without its trailing slashes (a lone "/" stays)
RECURSIVE StripTrailingSlashes(_)
StripTrailingSlashes(p) ==
    IF Len(p) > 1 /\ p[Len(p)] = "/"
    THEN StripTrailingSlashes(SubSeq(p, 1, Len(p) - 1))
    ELSE p

\* the position of the last "/" of p, 0 when there is none
LastSlash(p) ==
    IF \A i \in 1..Len(p) : p[i] # "/" THEN 0
    ELSE CHOOSE i \in 1..Len(p) :
            p[i] = "/" /\ \A j \in (i + 1)..Len(p) : p[j] # "/"

\* path.dirname(p)
PathDirname(p) ==
    LET q == StripTrailingSlashes(p)
        i == LastSlash(q)
    IN  IF q = <<"/">> THEN q
        ELSE IF i = 0 THEN <<".">>
        ELSE IF i = 1 THEN <<"/">>
        ELSE SubSeq(q, 1, i - 1)

\* path.basename(p)
PathBasename(p) ==
    LET q == StripTrailingSlashes(p)
    IN  IF q = <<"/">> THEN <<>> ELSE SubSeq(q, LastSlash(q) + 1, Len(q))

\* the position of the "." that starts path.parse(p).ext, 0 when ext is ''
ExtStart(p) ==
    LET b == PathBasename(p)
        dots == {i \in 2..Len(b) : b[i] = "."}
    IN  IF dots = {} \/ b = DotDot THEN 0
        ELSE Len(StripTrailingSlashes(p)) - Len(b)
               + (CHOOSE i \in dots : \A j \in dots : j <= i)

\* path.parse(p).ext
PathExt(p) ==
    IF ExtStart(p) = 0 THEN <<>>
    ELSE SubSeq(StripTrailingSlashes(p), ExtStart(p), Len(StripTrailingSlashes(p)))

\* process.cwd()
Cwd == <<"/", "w">>

\* path.resolve(a, b) for relative a and b
PathResolve(a, b) == StripTrailingSlashes(PathNormalize(Cwd \o <<"/">> \o a \o <<"/">> \o b))

\* /^\w/ on a token sequence: the first token is a run of word characters
IsWordToken(c) == c \notin {".", "/", "@", "#", "!", "-", NL, SP}

StartsWithWord(s) == s # <<>> /\ IsWordToken(s[1])

(***************************************************************************)
(* The file system, and the probes of utils.js (findFileSync,              *)
(* getAbsPathInfoSync).                                                    *)
(***************************************************************************)
RECURSIVE Ancestors(_)
Ancestors(p) ==
    IF p = <<"/">> \/ p = <<".">> THEN {p}
    ELSE {PathDirname(p)} \cup Ancestors(PathDirname(p))

Directories(tree) == UNION {Ancestors(f) : f \in tree}

IsFile(p) == p \in fsFiles

IsDirectory(p) == StripTrailingSlashes(p) \in Directories(fsFiles)

\* fs.pathExistsSync(p)
PathExists(p) ==
    IF Len(p) > 1 /\ p[Len(p)] = "/" THEN IsDirectory(p)
    ELSE IsFile(p) \/ IsDirectory(p)

\* findFileSync(list, directory): the first name of the list that is a file of
\* the directory, <<>> for null
RECURSIVE FindFileSync(_, _)
FindFileSync(list, directory) ==
    IF list = <<>> THEN <<>>
    ELSE IF IsFile(PathJoin(directory, Head(list)))
    THEN PathJoin(directory, Head(list))
    ELSE FindFileSync(Tail(list), directory)

\* p without a final ".js" or ".mjs"
WithoutModuleExt(p) ==
    IF EndsWith(p, <<".", "js">>) \/ EndsWith(p, <<".", "mjs">>)
    THEN SubSeq(p, 1, Len(p) - 2)
    ELSE p

NoInfo == [found |-> FALSE, path |-> <<>>, isFile |-> FALSE]

\* getAbsPathInfoSync(absPath): the file at the path, or the file the path names
\* without its extension or with the source extension (target extension
\* first), or the directory at the path; null when nothing exists there
GetAbsPathInfoSync(absPath) ==
    LET stem == WithoutModuleExt(absPath)
        named == FindFileSync(<<PathBasename(stem) \o <<".", "mjs">>,
                                PathBasename(stem) \o <<".", "js">>>>,
                              PathDirname(stem))
    IN  IF IsFile(absPath)
        THEN [found |-> TRUE, path |-> absPath, isFile |-> TRUE]
        ELSE IF absPath[Len(absPath)] # "/" /\ PathBasename(stem) # <<>>
                /\ named # <<>>
        THEN [found |-> TRUE, path |-> named, isFile |-> TRUE]
        ELSE IF IsDirectory(absPath)
        THEN [found |-> TRUE, path |-> absPath, isFile |-> FALSE]
        ELSE NoInfo

(***************************************************************************)
(* removeShebangs: /^#!.*?$/m.exec(contents).  With the m flag ^ matches   *)
(* at the start of any line, and the lazy .*? runs to the end of that line *)
(* ("." matches no line terminator).                                       *)
(***************************************************************************)
LineStarts(s) ==
    {i \in 1..Len(s) : i = 1 \/ s[i - 1] = NL}

ShebangStarts(s) ==
    {i \in LineStarts(s) : i + 1 <= Len(s) /\ s[i] = "#" /\ s[i + 1] = "!"}

\* the end of the line that starts at i
LineEnd(s, i) ==
    IF \E j \in i..Len(s) : s[j] = NL
    THEN Min({j \in i..Len(s) : s[j] = NL}) - 1
    ELSE Len(s)

\* the match of the regular expression: <<>> for null, else <<shebang>>
ShebangMatch(s) ==
    IF ShebangStarts(s) = {} THEN <<>>
    ELSE LET i == Min(ShebangStarts(s))
         IN  <<SubSeq(s, i, LineEnd(s, i))>>

\* contents.replace(shebang, '').trimLeft()
StripShebang(s, shebang) == TrimLeft(ReplaceFirst(s, shebang, <<>>))

\* `${shebang}\n\n${contents}` with one line break only
RestoredContentsOneBreak(shebang, s) == shebang \o <<NL>> \o s

\* `${shebang}\n\n${contents}`
RestoredContents(shebang, s) == shebang \o <<NL, NL>> \o s

ContentAlphabet == {"#", "!", "a", NL, SP}

IdleSh ==
    /\ contents = <<>>
    /\ original = <<>>
    /\ shebangs = <<>>
    /\ shPhase = "idle"
    /\ modified = FALSE

InitSh ==
    /\ contents \in StringsUpTo(ContentAlphabet, MaxContentLen)
    /\ original = contents
    /\ shebangs = <<>>
    /\ shPhase = "copied"
    /\ modified = FALSE

\* removeShebangs on the file
RemoveShebangs ==
    /\ shPhase = "copied"
    /\ LET match == ShebangMatch(contents)
       IN  IF match # <<>>
           THEN /\ shebangs' = match
                /\ contents' = StripShebang(contents, match[1])
           ELSE /\ shebangs' = <<>>
                /\ contents' = contents
    /\ shPhase' = "shielded"
    /\ UNCHANGED <<original, modified>>

\* a transformation pass that rewrites the file (stats.ok): it prepends a
\* statement; a pass that leaves it alone (stats.nochange) changes nothing
PassRewritesFile ==
    /\ shPhase = "shielded"
    /\ ~modified
    /\ Len(contents) < MaxContentLen
    /\ contents' = <<"a">> \o contents
    /\ modified' = TRUE
    /\ UNCHANGED <<original, shebangs, shPhase>>

\* restoreShebangs on the file
RestoreShebangs ==
    /\ shPhase = "shielded"
    /\ IF shebangs # <<>>
       THEN contents' = RestoredContents(shebangs[1], contents)
       ELSE contents' = contents
    /\ shPhase' = "unshielded"
    /\ UNCHANGED <<original, shebangs, modified>>

(***************************************************************************)
(* transformOutput.  The external codemod engine (Runner.run) is a black   *)
(* box that processes every file of the output tree, in any order, and     *)
(* resolves with its statistics; a file it cannot process is counted as an *)
(* error, not thrown.                                                      *)
(***************************************************************************)
Files == 1..NFiles

\* the `transformations` array, by path.parse(...).name
Transformations == <<"cjs", "exports", "named-export-generation", "transformer">>

\* files.filter(({ from }) => shebangExpressions.some(...))
FilesWithShebang == {f \in Files : fileShebang[f] # "nomatch"}

\* the keys of the dictionary removeShebangs returns
ShebangKeys == {f \in Files : fileShebang[f] = "directive"}

\* `await removeShebangs(...)` resolves at once
RemoveShebangsSettledEarly == TRUE

\* `await removeShebangs(...)`: Promise.all over every matching file
RemoveShebangsSettled == removed = FilesWithShebang

\* Runner.run(...) resolves once every file of the tree was processed
RunnerSettled == processed = Files

\* the reduce over `transformations`: acc.then(...) runs the next pass
NextTransformation == Len(results) + 1

\* `await transformations.reduce(...)` resolved
AllTransformationsDone == Len(results) = Len(Transformations)

\* the indices whose stats show a discrepancy
FailedIndices == {i \in 1..Len(results) : results[i].ok # NFiles}

\* findLastIndex in place of findIndex
ErrorIndexLast ==
    IF FailedIndices = {} THEN 0
    ELSE CHOOSE i \in FailedIndices : \A j \in FailedIndices : j <= i

\* results.findIndex((stats) => stats.ok + stats.nochange !== files.length),
\* 1-based, 0 for -1
ErrorIndex ==
    IF FailedIndices = {} THEN 0 ELSE Min(FailedIndices)

InitTp ==
    /\ pc = "start"
    /\ fileShebang \in [Files -> {"nomatch", "plain", "directive"}]
    /\ removed = {}
    /\ running = 0
    /\ processed = {}
    /\ okCount = 0
    /\ results = <<>>
    /\ restored = {}
    /\ thrown = ""

\* if (filesWithShebang.length) shebangs = await removeShebangs(...)
BeginRemoveShebangs ==
    /\ pc = "start"
    /\ IF FilesWithShebang # {} THEN pc' = "removing" ELSE pc' = "transforming"
    /\ UNCHANGED <<fileShebang, removed, running, processed, okCount, results,
                   restored, thrown>>

\* one callback of files.map(async (file) => ...) in removeShebangs
RemoveShebangOf(f) ==
    /\ pc = "removing"
    /\ f \in FilesWithShebang \ removed
    /\ removed' = removed \cup {f}
    /\ UNCHANGED <<pc, fileShebang, running, processed, okCount, results,
                   restored, thrown>>

EndRemoveShebangs ==
    /\ pc = "removing"
    /\ RemoveShebangsSettled
    /\ pc' = "transforming"
    /\ UNCHANGED <<fileShebang, removed, running, processed, okCount, results,
                   restored, thrown>>

\* Runner.run(transformation, [options.output], transformOptions) is called
BeginTransformation ==
    /\ pc = "transforming"
    /\ running = 0
    /\ ~AllTransformationsDone
    /\ running' = NextTransformation
    /\ processed' = {}
    /\ okCount' = 0
    /\ UNCHANGED <<pc, fileShebang, removed, results, restored, thrown>>

\* the running pass processes one file: ok or nochange, or an error
TransformFile(f, good) ==
    /\ pc = "transforming"
    /\ running # 0
    /\ f \in Files \ processed
    /\ processed' = processed \cup {f}
    /\ okCount' = IF good THEN okCount + 1 ELSE okCount
    /\ UNCHANGED <<pc, fileShebang, removed, running, results, restored, thrown>>

\* Runner.run resolves: .then((stats) => [...prevStats, stats])
EndTransformation ==
    /\ pc = "transforming"
    /\ running # 0
    /\ RunnerSettled
    /\ results' = Append(results,
                         [pass |-> Transformations[running], ok |-> okCount,
                          seen |-> Cardinality(processed)])
    /\ running' = 0
    /\ processed' = {}
    /\ okCount' = 0
    /\ UNCHANGED <<pc, fileShebang, removed, restored, thrown>>

\* if (shebangs) await restoreShebangs(shebangs): an empty dictionary is truthy
BeginRestoreShebangs ==
    /\ pc = "transforming"
    /\ running = 0
    /\ AllTransformationsDone
    /\ IF FilesWithShebang # {} THEN pc' = "restoring" ELSE pc' = "checking"
    /\ UNCHANGED <<fileShebang, removed, running, processed, okCount, results,
                   restored, thrown>>

\* one callback of Object.keys(shebangs).map(async (filepath) => ...)
RestoreShebangOf(f) ==
    /\ pc = "restoring"
    /\ f \in (ShebangKeys \cap removed) \ restored
    /\ restored' = restored \cup {f}
    /\ UNCHANGED <<pc, fileShebang, removed, running, processed, okCount,
                   results, thrown>>

EndRestoreShebangs ==
    /\ pc = "restoring"
    /\ restored = ShebangKeys \cap removed
    /\ pc' = "checking"
    /\ UNCHANGED <<fileShebang, removed, running, processed, okCount, results,
                   restored, thrown>>

\* results.findIndex(...); throw new Error(...) or the success report
CheckResults ==
    /\ pc = "checking"
    /\ IF ErrorIndex > 0
       THEN /\ thrown' = Transformations[ErrorIndex]
            /\ pc' = "error"
       ELSE /\ thrown' = ""
            /\ pc' = "done"
    /\ UNCHANGED <<fileShebang, removed, running, processed, okCount, results,
                   restored>>

(***************************************************************************)
(* transformer.js: the extension sub-pass (needsPathUpdate, updatePath,    *)
(* createReplacementForFolder) and the alias sub-pass (cjs2esm.modules).   *)
(* A pattern of extension.ignore and a rule's `find` are literal texts: as *)
(* regular expressions they match wherever the text occurs.                *)
(***************************************************************************)
PackageJson == <<"package", ".", "json">>
IndexMjs == <<"index", ".", "mjs">>
IndexJs == <<"index", ".", "js">>

\* importPath.replace(/\/$/, '')
WithoutFinalSlash(s) ==
    IF s # <<>> /\ s[Len(s)] = "/" THEN SubSeq(s, 1, Len(s) - 1) ELSE s

\* createReplacementForFolder(absPath, importPath), <<>> for null
CreateReplacementForFolder(absPath, imp) ==
    IF PathExists(PathJoin(absPath, PackageJson))
    THEN WithoutFinalSlash(imp)
    ELSE LET file == FindFileSync(<<IndexMjs, IndexJs>>, absPath)
         IN  IF file # <<>> THEN PathJoin(imp, PathBasename(file)) ELSE <<>>

\* the absolute path updatePath resolves for the import statement
AbsPathOf(imp, base) ==
    IF StartsWith(imp, <<".">>)
    THEN PathJoin(base, imp)
    ELSE PathResolve(<<"node_modules">>, imp)

\* the replacement built from the file name alone
ReplacementNoDirname(imp, base) ==
    LET absPath == AbsPathOf(imp, base)
        info == GetAbsPathInfoSync(absPath)
    IN  IF ~info.found THEN imp
        ELSE IF info.isFile
        THEN PathBasename(info.path)
        ELSE LET folderReplacement == CreateReplacementForFolder(absPath, imp)
             IN  IF folderReplacement # <<>> THEN folderReplacement ELSE imp

\* updatePath before its hotfix
Replacement(imp, base) ==
    LET absPath == AbsPathOf(imp, base)
        info == GetAbsPathInfoSync(absPath)
    IN  IF ~info.found THEN imp
        ELSE IF info.isFile
        THEN PathJoin(PathDirname(imp), PathBasename(info.path))
        ELSE LET folderReplacement == CreateReplacementForFolder(absPath, imp)
             IN  IF folderReplacement # <<>> THEN folderReplacement ELSE imp

\* updatePath(item, base)
UpdatePath(imp, base) ==
    LET replacement == Replacement(imp, base)
    IN  IF (imp = <<".">> \/ StartsWith(imp, <<".", "/">>))
           /\ ~StartsWith(replacement, <<".", "/">>)
        THEN <<".", "/">> \o replacement
        ELSE replacement

\* ignoreListForExt.some((exp) => exportPath.match(exp))
Ignored(list, s) == \E i \in 1..Len(list) : Occurrences(s, list[i]) # {}

\* needsPathUpdate that forgets the ignore list
NeedsPathUpdateNoIgnore(list, s) ==
    /\ s # <<>>
    /\ StartsWith(s, <<".">>) \/ StartsWithWord(s)

\* needsPathUpdate(item)
NeedsPathUpdate(list, s) ==
    /\ s # <<>>
    /\ ~Ignored(list, s)
    /\ StartsWith(s, <<".">>) \/ StartsWithWord(s)

\* the three find(...).filter(needsPathUpdate).replaceWith(...) blocks: the
\* same for import, named re-export and wildcard re-export declarations
ExtensionPass(list, s, base) ==
    IF NeedsPathUpdate(list, s) THEN UpdatePath(s, base) ELSE s

\* mod.regex.test(importPath), mod.regex being new RegExp(`^${r.name}(/|$)`)
RuleRegexTest(rule, s) ==
    /\ StartsWith(s, rule.name)
    /\ Len(s) = Len(rule.name) \/ s[Len(rule.name) + 1] = "/"

\* modules.find((mod) => importPath.startsWith(mod.name))
RuleFound(table, s) ==
    table[Min({i \in 1..Len(table) : StartsWith(s, table[i].name)})]

\* importPath.replace(find, info.path)
RuleReplace(rule, s) ==
    IF rule.find # <<>>
    THEN ReplaceFirst(s, rule.find, rule.path)
    ELSE rule.path \o SubSeq(s, Len(rule.name) + 1, Len(s))

\* the block under `if (cjs2esm.modules.length)`: import declarations only
ModulesPass(table, kind, s) ==
    IF /\ table # <<>>
       /\ kind = "ImportDeclaration"
       /\ \E i \in 1..Len(table) : RuleRegexTest(table[i], s)
    THEN RuleReplace(RuleFound(table, s), s)
    ELSE s

StatementKinds ==
    {"ImportDeclaration", "ExportNamedDeclaration", "ExportAllDeclaration"}

\* ---- the inputs of the model: the output tree, the options, the statements
Esm == Cwd \o <<"/", "esm">>
EsmLib == Esm \o <<"/", "lib">>
NodePkg == Cwd \o <<"/", "node_modules", "/", "pkg">>

\* files every tree holds: the project manifest, an installed package and
\* the two importing files
FixedFiles ==
    {Cwd \o <<"/">> \o PackageJson,
     NodePkg \o <<"/">> \o PackageJson,
     Esm \o <<"/", "a", ".", "mjs">>,
     Esm \o <<"/", "sub", "/", "d", ".", "mjs">>}

LibChoices ==
    {{},
     {EsmLib \o <<"/", "notes", ".", "txt">>},
     {EsmLib \o <<"/">> \o IndexMjs},
     {EsmLib \o <<"/">> \o IndexJs},
     {EsmLib \o <<"/">> \o IndexMjs, EsmLib \o <<"/">> \o IndexJs},
     {EsmLib \o <<"/">> \o PackageJson},
     {EsmLib \o <<"/">> \o PackageJson, EsmLib \o <<"/">> \o IndexMjs}}

BChoices == {{}, {Esm \o <<"/", "b", ".", "mjs">>}}

EsmEntryChoices ==
    {{}, {Esm \o <<"/">> \o IndexMjs}, {Esm \o <<"/">> \o PackageJson}}

Trees ==
    {FixedFiles \cup l \cup b \cup e :
        l \in LibChoices, b \in BChoices, e \in EsmEntryChoices}

Utils == <<"util", "s">>

Specifiers ==
    {<<".">>, DotDot, <<".", "/">>,
     <<".", "/", "b">>, <<".", "/", "b", ".", "js">>, <<".", "/", "b", ".", "mjs">>,
     DotDot \o <<"/", "b">>,
     <<".", "/", "lib">>, <<".", "/", "lib", "/">>, DotDot \o <<"/", "lib">>,
     <<".", "/", "lib", "/", "index">>,
     <<".", "/", "zz">>,
     <<"pkg">>, <<"pkg", "/">>, <<"zz">>,
     Utils, Utils \o <<"/", "helpers">>,
     <<"@", "s", "/", "x">>}

UtilsRule == [name |-> Utils, find |-> <<>>, path |-> <<".", "/", "shared", "/">> \o Utils]
UtilRule == [name |-> <<"util">>, find |-> <<>>, path |-> <<".", "/", "u">>]
HelpersRule == [name |-> Utils, find |-> <<"helpers">>, path |-> <<"h">>]

\* the cjs2esm options the runs are given: extension.ignore and modules
Options ==
    {[ignore |-> <<>>, modules |-> <<>>],
     [ignore |-> <<<<"b">>>>, modules |-> <<UtilsRule>>],
     [ignore |-> <<Utils>>, modules |-> <<UtilsRule>>],
     [ignore |-> <<<<"lib">>, <<"pkg">>>>, modules |-> <<UtilRule, UtilsRule>>],
     [ignore |-> <<<<".">>>>, modules |-> <<HelpersRule>>],
     [ignore |-> <<>>, modules |-> <<UtilsRule, UtilRule>>]}

IdleTransform ==
    /\ filePath = <<>>
    /\ ignoreList = <<>>
    /\ modules = <<>>
    /\ stmtKind = ""
    /\ importPath = <<>>
    /\ extSource = <<>>
    /\ outSource = <<>>

IdleRw == fsFiles = {} /\ IdleTransform

InitRw ==
    /\ fsFiles \in Trees
    /\ filePath \in {Esm \o <<"/", "a", ".", "mjs">>,
                     Esm \o <<"/", "sub", "/", "d", ".", "mjs">>}
    /\ \E o \in Options : ignoreList = o.ignore /\ modules = o.modules
    /\ stmtKind = ""
    /\ importPath = <<>>
    /\ extSource = <<>>
    /\ outSource = <<>>

\* const base = path.dirname(file.path)
Base == PathDirname(filePath)

\* transform(file, api, options) on a file whose one statement with a source
\* is of kind `kind` and names `imp`
Transform(kind, imp) ==
    /\ stmtKind = ""
    /\ stmtKind' = kind
    /\ importPath' = imp
    /\ extSource' = ExtensionPass(ignoreList, imp, Base)
    /\ outSource' = ModulesPass(modules, kind,
                                ExtensionPass(ignoreList, imp, Base))
    /\ UNCHANGED <<fsFiles, filePath, ignoreList, modules>>

(***************************************************************************)
(* copyFiles, copyDirectory and findFiles.                                 *)
(***************************************************************************)
\* options.output
Output == Cwd \o <<"/", "esm">>

\* item.match(/\.js$/i)
MatchesJs(name) == EndsWith(name, <<".", "js">>) \/ EndsWith(name, <<".", "JS">>)

\* findFiles(directory): the .js files below the directory that are not
\* below an entry named node_modules
FindFiles(directory) ==
    {f \in srcFiles :
        /\ StartsWith(f, directory \o <<"/">>)
        /\ LET below == SplitOn(SubSeq(f, Len(directory) + 2, Len(f)), "/")
           IN  \A i \in 1..Len(below) : below[i] # <<"node_modules">>
        /\ MatchesJs(f)}

\* cleanPath: the path below the working directory, without its first segment
\* when the directory itself is not to be copied
CleanPath(item, directory, force) ==
    LET cleanPath == SubSeq(item, Len(Cwd) + 2, Len(item))
    IN  IF force THEN cleanPath
        ELSE JoinWith(Tail(SplitOn(cleanPath, "/")), "/")

\* newPath: under the output, with the extension replaced
NewPath(item, directory, force) ==
    LET newPath == PathJoin(Output, CleanPath(item, directory, force))
        ext == PathExt(newPath)
        extension == <<".", useExtension>>
    IN  IF ext # extension
        THEN SubSeq(newPath, 1, Len(newPath) - Len(ext)) \o extension
        ELSE newPath

\* the forceDirectory argument copyFiles gives copyDirectory
ForceDirectoryArg ==
    IF Len(input) = 1 THEN forceDirectory = "true" ELSE TRUE

\* the list copyDirectory(directory, output, useExtension, force) resolves with
CopyDirectoryResult(directory) ==
    {[from |-> item, to |-> NewPath(item, directory, ForceDirectoryArg)] :
        item \in FindFiles(directory)}

Src == Cwd \o <<"/", "src">>
Lib == Cwd \o <<"/", "lib">>
PackagesA == Cwd \o <<"/", "packages", "/", "a">>

SourceUniverse ==
    {Src \o <<"/", "x", ".", "js">>,
     Src \o <<"/", "x", ".", "JS">>,
     Src \o <<"/", "sub", "/", "y", ".", "js">>,
     Src \o <<"/", "z", ".", "ts">>,
     Src \o <<"/", "node_modules", "/", "m", ".", "js">>,
     Lib \o <<"/", "x", ".", "js">>,
     PackagesA \o <<"/", "x", ".", "js">>}

Inputs ==
    {<<Src>>, <<Lib>>, <<PackagesA>>, <<Src, Lib>>, <<Src, PackagesA>>,
     <<Lib, PackagesA>>}

IdleCp ==
    /\ srcFiles = {}
    /\ input = <<>>
    /\ useExtension = ""
    /\ forceDirectory = ""
    /\ outFiles = {}
    /\ pending = {}
    /\ copied = {}
    /\ cpPc = "idle"

\* every input root is a directory of the disk: fs.readdir fails otherwise
InitCp ==
    /\ srcFiles \in SUBSET SourceUniverse
    /\ input \in Inputs
    /\ \A i \in 1..Len(input) : input[i] \in Directories(srcFiles)
    /\ useExtension \in {"mjs", "js"}
    /\ forceDirectory \in {"null", "true", "false"}
    /\ outFiles = {}
    /\ pending = 1..Len(input)
    /\ copied = {}
    /\ cpPc = "copying"

\* one copyDirectory call resolves: its files are on disk under the output
CopyDirectory(i) ==
    /\ cpPc = "copying"
    /\ i \in pending
    /\ pending' = pending \ {i}
    /\ copied' = copied \cup CopyDirectoryResult(input[i])
    /\ outFiles' = outFiles \cup {c.to : c \in CopyDirectoryResult(input[i])}
    /\ UNCHANGED <<srcFiles, input, useExtension, forceDirectory, cpPc>>

\* copyFiles returns the concatenated lists
CopyFilesReturn ==
    /\ cpPc = "copying"
    /\ pending = {}
    /\ cpPc' = "copied"
    /\ UNCHANGED <<srcFiles, input, useExtension, forceDirectory, outFiles,
                   pending, copied>>

(***************************************************************************)
(* updatePackageJSON and findFolderEntryPath.                              *)
(***************************************************************************)
\* the number of leading segments two segment lists share
RECURSIVE CommonPrefixLen(_, _)
CommonPrefixLen(a, b) ==
    IF a = <<>> \/ b = <<>> \/ Head(a) # Head(b) THEN 0
    ELSE 1 + CommonPrefixLen(Tail(a), Tail(b))

\* path.relative(from, to) for absolute normalized paths
PathRelative(from, to) ==
    LET a == Tail(SplitOn(from, "/"))
        b == Tail(SplitOn(to, "/"))
        k == CommonPrefixLen(a, b)
    IN  JoinWith([i \in 1..(Len(a) - k) |-> DotDot] \o SubSeq(b, k + 1, Len(b)), "/")

\* s.replace(/^(\w)/, './$1')
WithRelativeMarker(s) ==
    IF StartsWithWord(s) THEN <<".", "/">> \o s ELSE s

\* path.relative(cwd, file.to).replace(/^(\w)/, './$1')
ModuleEntry(to) == WithRelativeMarker(PathRelative(Cwd, to))

\* findFolderEntryPath(absPath), <<>> for null
FindFolderEntryPath(absPath) ==
    LET file == FindFileSync(<<IndexMjs, IndexJs>>, absPath)
    IN  IF file # <<>> THEN PathJoin(absPath, PathBasename(file)) ELSE <<>>

\* files.find(...) that takes any copied file for the entry
FilesFromAny(mainPath) == files

\* files.find((item) => item.from === mainPath), as the set of its candidates
FilesFrom(mainPath) == {c \in files : c.from = mainPath}

\* ---- the inputs of the model: the project on disk, the manifest, the copy
ProjectTrees ==
    {{Cwd \o <<"/">> \o PackageJson,
      Src \o <<"/", "util", ".", "js">>,
      Lib \o <<"/", "other", ".", "js">>,
      Cwd \o <<"/", "docs", "/", "readme", ".", "md">>} \cup entry :
        entry \in {{}, {Src \o <<"/">> \o IndexJs}}}

Mains ==
    {<<>>,
     <<"src", "/">> \o IndexJs,
     <<".", "/", "src", "/">> \o IndexJs,
     <<"src">>,
     <<"src", "/", "index">>,
     <<"lib", "/", "other", ".", "js">>,
     <<"docs">>,
     <<"missing", ".", "js">>}

\* options.output, after path.join(cwd, ...)
OutputRoots ==
    {PathJoin(Cwd, o) :
        o \in {<<"esm">>, <<"_esm">>, <<".", "esm">>, <<"-", "out">>,
               <<"dist", "/", "esm">>, DotDot \o <<"/", "out">>}}

\* the list copyFiles returns for the single input root src
CopiedFrom(tree, out, ext) ==
    {[from |-> f,
      to |-> out \o <<"/">> \o SubSeq(f, Len(Src) + 2, Len(f) - 1) \o <<ext>>] :
        f \in {g \in tree : StartsWith(g, Src \o <<"/">>) /\ MatchesJs(g)}}

IdlePk ==
    /\ pkgMain = <<>>
    /\ files = {}
    /\ pkgModule = <<>>
    /\ pkResult = "idle"
    /\ pkLog = ""

InitPk ==
    /\ fsFiles \in ProjectTrees
    /\ pkgMain \in Mains
    /\ \E out \in OutputRoots, ext \in {"mjs", "js"} :
          files = CopiedFrom(fsFiles, out, ext)
    /\ pkgModule = <<>>
    /\ pkResult = ""
    /\ pkLog = ""

\* updatePackageJSON(files).  getAbsPathInfo resolves with null when nothing
\* exists at the path, and `info.isFile` then throws a TypeError.
UpdatePackageJSON ==
    /\ pkResult = ""
    /\ IF pkgMain = <<>>
       THEN /\ pkResult' = "skipped"
            /\ pkLog' = "yellow"
            /\ pkgModule' = pkgModule
       ELSE LET info == GetAbsPathInfoSync(PathJoin(Cwd, pkgMain))
                mainPath == IF info.isFile THEN info.path
                            ELSE FindFolderEntryPath(info.path)
            IN  IF ~info.found \/ mainPath = <<>>
                THEN /\ pkResult' = "threw"
                     /\ pkLog' = ""
                     /\ pkgModule' = pkgModule
                ELSE IF FilesFrom(mainPath) # {}
                THEN /\ \E file \in FilesFrom(mainPath) :
                            pkgModule' = ModuleEntry(file.to)
                     /\ pkResult' = "written"
                     /\ pkLog' = "green"
                ELSE /\ pkResult' = "skipped"
                     /\ pkLog' = "yellow"
                     /\ pkgModule' = pkgModule
    /\ UNCHANGED <<files, pkgMain>>

IdleTp ==
    /\ pc = "idle"
    /\ fileShebang = <<>>
    /\ removed = {}
    /\ running = 0
    /\ processed = {}
    /\ okCount = 0
    /\ results = <<>>
    /\ restored = {}
    /\ thrown = ""

InitShebang == InitSh /\ IdleTp /\ IdleRw /\ IdleCp /\ IdlePk

NextShebang ==
    /\ \/ RemoveShebangs
       \/ PassRewritesFile
       \/ RestoreShebangs
    /\ UNCHANGED <<tpVars, rwVars, cpVars, pkVars>>

SpecShebang == InitShebang /\ [][NextShebang]_vars

BeginsWithDirective(s) == StartsWith(s, <<"#", "!">>)

RECURSIVE FirstLine(_)
FirstLine(s) ==
    IF s = <<>> \/ Head(s) = NL THEN <<>> ELSE <<Head(s)>> \o FirstLine(Tail(s))

AfterFirstLine(s) == SubSeq(s, Len(FirstLine(s)) + 1, Len(s))

RECURSIVE SkipBlanks(_)
SkipBlanks(s) ==
    IF s = <<>> THEN s
    ELSE IF Head(s) = NL \/ Head(s) = SP THEN SkipBlanks(Tail(s)) ELSE s

OneBlankLineThenText(s) ==
    /\ StartsWith(s, <<NL, NL>>)
    /\ Len(s) > 2 => ~IsWhitespace(s[3])

(***************************************************************************)
(* C3 (as amended).  For every content that begins with an interpreter     *)
(* directive line, removal then restoration with no modification in        *)
(* between yields the directive line, then "\n\n", then the rest of the    *)
(* original with its leading whitespace trimmed; the result is             *)
(* byte-identical to the original exactly when the directive line was      *)
(* followed by "\n\n" and then by nothing or by a non-whitespace           *)
(* character.                                                              *)
(***************************************************************************)
ShebangRoundTripAmended ==
    (shPhase = "unshielded" /\ BeginsWithDirective(original) /\ ~modified) =>
        /\ contents = FirstLine(original) \o <<NL, NL>>
                        \o SkipBlanks(AfterFirstLine(original))
        /\ (contents = original) <=> OneBlankLineThenText(AfterFirstLine(original))

\* a directive followed by exactly one blank line came back byte-identical
ShebangRoundTripWitness ==
    /\ shPhase = "unshielded"
    /\ ~modified
    /\ original = <<"#", "!", NL, NL, "a">>
    /\ contents = original

\* C3 as stated: the file is byte-identical to its original content
ShebangRoundTripIdentical ==
    (shPhase = "unshielded" /\ BeginsWithDirective(original) /\ ~modified) =>
        contents = original

Init == IdleSh /\ InitTp /\ IdleRw /\ IdleCp /\ IdlePk

Next ==
    /\ \/ BeginRemoveShebangs
       \/ \E f \in Files : RemoveShebangOf(f)
       \/ EndRemoveShebangs
       \/ BeginTransformation
       \/ \E f \in Files, good \in BOOLEAN : TransformFile(f, good)
       \/ EndTransformation
       \/ BeginRestoreShebangs
       \/ \E f \in Files : RestoreShebangOf(f)
       \/ EndRestoreShebangs
       \/ CheckResults
    /\ UNCHANGED <<shVars, rwVars, cpVars, pkVars>>

Spec == Init /\ [][Next]_vars

FirstDiscrepancy(i) ==
    /\ i \in 1..Len(results)
    /\ results[i].ok # NFiles
    /\ \A j \in 1..(i - 1) : results[j].ok = NFiles

(***************************************************************************)
(* C1 (as amended).  If some pass reports ok + nochange different from the *)
(* number of copied files, the run aborts with an error naming the first   *)
(* such pass in pipeline order, but only after all four passes have been   *)
(* executed and the shebangs restored; a run in which no pass shows a      *)
(* discrepancy does not abort.                                             *)
(***************************************************************************)
AbortNamesFirstFailingPass ==
    /\ pc = "error" =>
        /\ \E i \in 1..Len(results) :
              FirstDiscrepancy(i) /\ thrown = Transformations[i]
        /\ Len(results) = Len(Transformations)
        /\ restored = ShebangKeys
    /\ pc = "done" => \A i \in 1..Len(results) : results[i].ok = NFiles

\* the second pass is named although the last one failed as well
AbortNamesFirstFailingPassWitness ==
    /\ pc = "error"
    /\ thrown = "exports"
    /\ results[4].ok # NFiles

\* C1 as stated: no pass after the failing one is executed, and the error
\* names the first failing pass
AbortsAtFailingPass ==
    /\ \A i \in 1..Len(results) :
          results[i].ok # NFiles => (Len(results) = i /\ running = 0)
    /\ pc = "error" =>
          \E i \in 1..Len(results) :
              FirstDiscrepancy(i) /\ thrown = Transformations[i]

(***************************************************************************)
(* C2.  The phases occur in one linear order: shebang removal of all       *)
(* matching files completes before the first pass starts; the four passes  *)
(* run one at a time in the order cjs, exports, named-export-generation,   *)
(* transformer, each starting only after the previous one has finished     *)
(* over the whole tree; restoration starts only after the last pass has    *)
(* finished.                                                               *)
(***************************************************************************)
PhasesInLinearOrder ==
    /\ (running # 0 \/ results # <<>>) => removed = FilesWithShebang
    /\ pc \in {"start", "removing"} => (running = 0 /\ results = <<>>)
    /\ \A k \in 1..Len(results) :
          results[k].pass = Transformations[k] /\ results[k].seen = NFiles
    /\ running # 0 =>
          /\ running = Len(results) + 1
          /\ running <= Len(Transformations)
          /\ restored = {}
    /\ (restored # {} \/ pc \in {"restoring", "checking", "done", "error"}) =>
          /\ running = 0
          /\ Len(results) = Len(Transformations)
          /\ results[Len(results)].pass = "transformer"

\* a whole run with shielded files: removed, four passes, restored
PhasesInLinearOrderWitness ==
    /\ pc = "done"
    /\ removed # {}
    /\ restored = removed
    /\ Len(results) = 4

InitResolve == IdleSh /\ IdleTp /\ InitRw /\ IdleCp /\ IdlePk

NextResolve ==
    /\ \E kind \in StatementKinds, imp \in Specifiers : Transform(kind, imp)
    /\ UNCHANGED <<shVars, tpVars, cpVars, pkVars>>

SpecResolve == InitResolve /\ [][NextResolve]_vars

Transformed == stmtKind # ""

MatchesSomeRule(s) == \E i \in 1..Len(modules) : RuleRegexTest(modules[i], s)

(***************************************************************************)
(* C4 (as amended).  For every import or re-export statement whose         *)
(* specifier matches an extension.ignore pattern the extension sub-pass is *)
(* skipped; the alias sub-pass does not consult the ignore list, so the    *)
(* output specifier is identical to the input for every re-export and for  *)
(* every import that matches no alias rule's name as a whole-segment       *)
(* prefix, while an import that matches an alias rule is still remapped.   *)
(***************************************************************************)
IgnoredSkipsExtensionPass ==
    (Transformed /\ Ignored(ignoreList, importPath)) =>
        /\ extSource = importPath
        /\ (stmtKind # "ImportDeclaration" \/ ~MatchesSomeRule(importPath)) =>
              outSource = importPath

\* an ignored relative specifier that names a copied file is left alone
IgnoredSkipsExtensionPassWitness ==
    /\ Transformed
    /\ ignoreList = <<<<"b">>>>
    /\ importPath = <<".", "/", "b">>
    /\ Esm \o <<"/", "b", ".", "mjs">> \in fsFiles
    /\ filePath = Esm \o <<"/", "a", ".", "mjs">>
    /\ outSource = importPath

\* C4 as stated: an ignored specifier is byte-identical in the output
IgnoredSpecifierVerbatim ==
    (Transformed /\ Ignored(ignoreList, importPath)) => outSource = importPath

IsRelative(s) == StartsWith(s, <<".", "/">>) \/ StartsWith(s, DotDot \o <<"/">>)

\* the copied files (target extension mjs) the specifier points at
CopiedTargets(imp) ==
    {f \in fsFiles :
        /\ EndsWith(f, <<".", "mjs">>)
        /\ PathJoin(Base, imp) \in
              {SubSeq(f, 1, Len(f) - 2), SubSeq(f, 1, Len(f) - 1) \o <<"js">>}}

(***************************************************************************)
(* C5.  For every relative specifier that points at a file copied into the *)
(* output tree (written without extension or with the source extension),   *)
(* the rewritten specifier is still relative and, joined to the directory  *)
(* of the importing file, equals the copied file's destination path;       *)
(* './b' in a.mjs becomes './b.mjs' when b.js was copied to b.mjs.         *)
(***************************************************************************)
RelativeSpecifierResolvesToCopy ==
    (Transformed /\ IsRelative(importPath) /\ ~Ignored(ignoreList, importPath)) =>
        \A f \in CopiedTargets(importPath) :
            /\ IsRelative(outSource)
            /\ PathJoin(Base, outSource) = f
            /\ (importPath = <<".", "/", "b">>) => outSource = <<".", "/", "b", ".", "mjs">>

\* '../b' in sub/d.mjs became '../b.mjs'
RelativeSpecifierResolvesToCopyWitness ==
    /\ Transformed
    /\ filePath = Esm \o <<"/", "sub", "/", "d", ".", "mjs">>
    /\ importPath = DotDot \o <<"/", "b">>
    /\ CopiedTargets(importPath) = {Esm \o <<"/", "b", ".", "mjs">>}
    /\ outSource = DotDot \o <<"/", "b", ".", "mjs">>

TargetDirectory(imp) == StripTrailingSlashes(AbsPathOf(imp, Base))

TargetsManifestDirectory(imp) ==
    /\ IsDirectory(TargetDirectory(imp))
    /\ TargetDirectory(imp) \o <<"/">> \o PackageJson \in fsFiles

(***************************************************************************)
(* C6 as stated.  For every specifier (including '.', '..' and specifiers  *)
(* ending in '/') whose resolved on-disk target is a directory containing  *)
(* a package.json manifest, updatePath returns the specifier unchanged.    *)
(***************************************************************************)
ManifestDirectoryUnchanged ==
    (Transformed /\ NeedsPathUpdate(ignoreList, importPath)
       /\ TargetsManifestDirectory(importPath)) =>
        extSource = importPath

TargetsNothing(imp) == ~GetAbsPathInfoSync(AbsPathOf(imp, Base)).found

TargetsBareDirectory(imp) ==
    /\ IsDirectory(TargetDirectory(imp))
    /\ \A name \in {PackageJson, IndexMjs, IndexJs} :
          TargetDirectory(imp) \o <<"/">> \o name \notin fsFiles

(***************************************************************************)
(* C7 as stated.  Fail-open: for every specifier whose resolved candidate  *)
(* path does not exist, or is a directory that has neither a manifest nor  *)
(* an index.mjs/index.js entry file, updatePath returns the specifier      *)
(* exactly as it was given.                                                *)
(***************************************************************************)
FailOpenUnchanged ==
    (Transformed /\ NeedsPathUpdate(ignoreList, importPath)
       /\ (TargetsNothing(importPath) \/ TargetsBareDirectory(importPath))) =>
        extSource = importPath

InitCopy == IdleSh /\ IdleTp /\ IdleRw /\ InitCp /\ IdlePk

NextCopy ==
    /\ \/ \E i \in 1..Len(input) : CopyDirectory(i)
       \/ CopyFilesReturn
    /\ UNCHANGED <<shVars, tpVars, rwVars, pkVars>>

SpecCopy == InitCopy /\ [][NextCopy]_vars

(***************************************************************************)
(* C8 as stated.  The CopiedFile list returned by copyFiles has pairwise   *)
(* distinct `to` paths (no two source files are copied onto the same       *)
(* destination), and every `to` path lies under the output root.           *)
(***************************************************************************)
DestinationsDistinctUnderOutput ==
    cpPc = "copied" =>
        /\ \A c \in copied, d \in copied : c.from # d.from => c.to # d.to
        /\ \A c \in copied : StartsWith(c.to, Output \o <<"/">>)

RootOf(c) == CHOOSE i \in 1..Len(input) : StartsWith(c.from, input[i] \o <<"/">>)

\* the path of the file inside its root, with the target extension
RelativeInRoot(c) ==
    LET p == SubSeq(c.from, Len(input[RootOf(c)]) + 2, Len(c.from))
    IN  SubSeq(p, 1, Len(p) - 1) \o <<useExtension>>

(***************************************************************************)
(* C9 as stated.  With exactly one input root and forceDirectory not true, *)
(* a file at relative path p inside the root is copied to <output>/p,      *)
(* whatever the depth of the root below the working directory; with        *)
(* several roots, a file at relative path p inside root R is copied to     *)
(* <output>/<directory name of R>/p.  (p carries the target extension.)    *)
(***************************************************************************)
OutputLayout ==
    cpPc = "copied" =>
        \A c \in copied :
            /\ (Len(input) = 1 /\ forceDirectory # "true") =>
                  c.to = Output \o <<"/">> \o RelativeInRoot(c)
            /\ Len(input) > 1 =>
                  c.to = Output \o <<"/">> \o PathBasename(input[RootOf(c)])
                           \o <<"/">> \o RelativeInRoot(c)

InitPkg == IdleSh /\ IdleTp /\ IdleTransform /\ IdleCp /\ InitPk

NextPkg ==
    /\ UpdatePackageJSON
    /\ UNCHANGED <<shVars, tpVars, rwVars, cpVars>>

SpecPkg == InitPkg /\ [][NextPkg]_vars

(***************************************************************************)
(* C10 as stated.  Whenever updatePackageJSON writes the `module` field,   *)
(* the written value is the transformed entry file's path relative to the  *)
(* project root and begins with a relative marker ('./' or '../'), for     *)
(* every output directory name.                                            *)
(***************************************************************************)
ModuleEntryHasRelativeMarker ==
    pkResult = "written" =>
        /\ \E c \in files : PathJoin(Cwd, pkgModule) = c.to
        /\ StartsWith(pkgModule, <<".", "/">>)
             \/ StartsWith(pkgModule, DotDot \o <<"/">>)

\* the paths the declared `main` can denote: the path itself, the path with a
\* module extension, or an index file of the directory at the path
MainCandidates ==
    LET m == PathJoin(Cwd, pkgMain)
    IN  {m, m \o <<".", "mjs">>, m \o <<".", "js">>,
         m \o <<"/">> \o IndexMjs, m \o <<"/">> \o IndexJs}

\* the entry file `main` denotes on disk, when there is one
MainEntryFiles == {f \in MainCandidates : f \in fsFiles}

NoCopyOfMain == \A c \in files : c.from \notin MainCandidates

MainIsBareDirectory ==
    /\ pkgMain # <<>>
    /\ MainEntryFiles = {}
    /\ PathJoin(Cwd, pkgMain) \in Directories(fsFiles)

Skipped ==
    /\ pkResult = "skipped"
    /\ pkLog = "yellow"
    /\ pkgModule = <<>>

ReplacedWith(rule, s) ==
    IF rule.find # <<>>
    THEN ReplaceFirst(s, rule.find, rule.path)
    ELSE rule.path \o SubSeq(s, Len(rule.name) + 1, Len(s))

\* the rule's name is a whole path-segment prefix of s
SegmentPrefix(rule, s) ==
    /\ StartsWith(s, rule.name)
    /\ Len(s) = Len(rule.name) \/ s[Len(rule.name) + 1] = "/"

(***************************************************************************)
(* C12 as stated.  For every alias rule table and every import specifier   *)
(* that matches some rule's name as a whole path-segment prefix, the       *)
(* replacement is computed with a rule that matches so (its `find` pattern *)
(* if present, else a prefix match on its name, substituting its `path`);  *)
(* a rule whose name is only a character prefix of the specifier is never  *)
(* the rule applied.                                                       *)
(***************************************************************************)
AliasUsesSegmentMatchingRule ==
    (Transformed /\ stmtKind = "ImportDeclaration"
       /\ \E i \in 1..Len(modules) : SegmentPrefix(modules[i], extSource)) =>
        \E i \in 1..Len(modules) :
            /\ SegmentPrefix(modules[i], extSource)
            /\ outSource = ReplacedWith(modules[i], extSource)

(***************************************************************************)
(* C13 as stated.  For every copied file whose content does not start with *)
(* an interpreter directive line (a "#!" occurs, if at all, only at the    *)
(* start of a later line), removeShebangs records nothing for it and       *)
(* leaves its content unchanged, and restoreShebangs later leaves it       *)
(* unchanged.                                                              *)
(***************************************************************************)
NoLeadingDirectiveUntouched ==
    (shPhase \in {"shielded", "unshielded"}
       /\ ~BeginsWithDirective(original) /\ ~modified) =>
        /\ shebangs = <<>>
        /\ contents = original

=============================================================================
